---- MODULE Spec2Model ----
(***************************************************************************)
(* Balance and transaction-state engine of EliteUnifiedTrade.              *)
(*                                                                         *)
(* The store (users.balance, transactions, investments) is shared by the   *)
(* request handlers of server/routes.ts.  Every handler is an async        *)
(* function: each awaited store call is one atomic step, and other         *)
(* handlers may run between two awaited calls of one handler.              *)
(*                                                                         *)
(* Money is counted in the smallest unit of the decimal(10,2) columns      *)
(* (one cent), so 50 dollars is 50 * Scale.                                *)
(***************************************************************************)
EXTENDS Integers, Sequences, FiniteSets, TLC

(* ------------------------------ bounds -------------------------------- *)

\* Handlers (or direct storage calls) that may be in flight at once.
NumProcs == 2
\* Rows the transactions table may hold.
MaxTx == 2
\* Rows the investments table may hold.
MaxInv == 1
\* Direct updateUserBalance calls made one after another.
MaxCalls == 3
\* WebSocket connections ever accepted.
MaxConns == 2
\* Rows the chat_messages table may hold.
MaxMsgs == 1
\* Chat frames and chat requests that may be in handling at once.
NumChat == 1

(* ------------------------- program constants -------------------------- *)

\* decimal(10,2): two digits after the point.
Scale == 100
\* "if (amount < 50)" in the deposit and the withdraw handler.
MinimumAmount == 50 * Scale
\* users.balance default("0").
DefaultBalance == 0

(* ------------------------------ inputs -------------------------------- *)

Procs == 1..NumProcs
ChatProcs == 1..NumChat
Users == {1, 2}
\* The user whose deposits, withdrawals and investments are followed.
Customers == {1}
\* users.role of the two users: 1 is a customer, 2 an administrator.
Role == (1 :> "user") @@ (2 :> "admin")
\* Amounts a request body may carry: below, at and above the minimum.
Amounts == {MinimumAmount - 1, MinimumAmount, MinimumAmount + 1}
\* Deltas of a direct updateUserBalance call.
Deltas == {-(MinimumAmount + 1), -MinimumAmount, MinimumAmount, MinimumAmount + 1}
\* Balances a user row may hold when direct calls start.
InitBalances == {DefaultBalance, MinimumAmount}
\* Ids a request may name: the rows that may exist and one that never does.
TxIds == 1..(MaxTx + 1)
\* investment_plans rows: plan 1 is active, plan 2 inactive, 3 is no row.
Plans == (1 :> [minAmount |-> MinimumAmount, maxAmount |-> MinimumAmount, status |-> "active"])
      @@ (2 :> [minAmount |-> MinimumAmount, maxAmount |-> MinimumAmount, status |-> "inactive"])
PlanIds == {1, 2, 3}
\* transactionTypeEnum and transactionStatusEnum.
transactionTypeEnum == {"deposit", "withdrawal", "profit"}
transactionStatusEnum == {"pending", "completed", "rejected", "failed"}
\* The userId a connection URL may carry: the id of user 1, the same id
\* with a leading zero, the id of user 2, and none.
Keys == {"1", "01", "2", ""}
\* The content of a chat frame, and the reply of an administrator.
Contents == {"hello", "thanks"}
\* messageStatusEnum, and the status a reply request may carry: none, or one
\* of the enum.
messageStatusEnum == {"unread", "read", "replied"}
StatusInputs == {"undefined"} \cup messageStatusEnum
\* Message ids a reply may name: the rows that may exist and one that never
\* does.
MsgIds == 1..(MaxMsgs + 1)
\* User ids a request may name: the rows, and one that is no row.
UserIds == Users \cup {3}
\* Bodies of the requests that update a user row: with and without a
\* password, and with a balance, which no such route reads.
UserBodies ==
  {[fullName |-> "new"],
   [fullName |-> "new", balance |-> MinimumAmount + 1],
   [fullName |-> "new", password |-> "q", balance |-> MinimumAmount + 1]}
\* Bodies of the password request: the current password right and wrong.
PasswordBodies ==
  {[currentPassword |-> c, newPassword |-> "q", balance |-> MinimumAmount + 1] :
     c \in {"p", "x"}}
\* Inputs of the handlers that run interleaved: those that pass validation,
\* sent by an administrator where the route is an administrator's.
ValidAmounts == {a \in Amounts : a >= MinimumAmount}
Admins == {u \in Users : Role[u] = "admin"}
RowIds == 1..MaxTx
ActivePlanIds == {pl \in DOMAIN Plans : Plans[pl].status = "active"}

(* ------------------------------- state -------------------------------- *)

VARIABLES
  balance,      \* users.balance, per user id
  initial,      \* the balance each user row held at the start
  txs,          \* the transactions table: row id = index
  investments,  \* the investments table: row id = index
  req,          \* per handler slot: the request, its locals, its position
  resp,         \* the response the last step sent, if any: the request answered
  credits,      \* per transactions row: the balance writes reject made for it
  calls,        \* the direct updateUserBalance calls made so far, in order
  clients,      \* the Map clients: its entries, key and connection
  sockets,      \* the connections accepted: connection id = index
  messages,     \* the chat_messages table: row id = index
  chat,         \* per handler slot: the chat frame or request being handled
  out,          \* what the last chat step sent: its answer and its pushes
  users,        \* the users table: the columns of a row other than balance
  edit          \* the update of a user row in handling, or the last one's answer

\* The variables of the balance and transaction handlers, of the chat, and
\* of the handlers that update a user row.
bankVars == <<balance, initial, txs, investments, req, resp, credits, calls>>
chatVars == <<clients, sockets, messages, chat, out>>
userVars == <<users, edit>>
vars == <<bankVars, chatVars, userVars>>

\* A slot with no request.
Idle ==
  [op |-> "none", pc |-> "idle", userId |-> 0, amount |-> 0, txId |-> 0,
   planId |-> 0, invId |-> 0, userBalance |-> 0, delta |-> 0, newBalance |-> 0,
   status |-> "none", threw |-> FALSE, code |-> 0]

\* A slot with no chat frame or request, and a step that sent nothing.
IdleChat ==
  [op |-> "none", pc |-> "idle", ws |-> 0, userId |-> "", actor |-> 0,
   adminId |-> 0, messageId |-> 0, content |-> "", status |-> "undefined", found |-> FALSE,
   threw |-> FALSE, code |-> 0, rows |-> {}, type |-> "none", to |-> {}]

\* hashPassword: the stored form of a password.
HashPassword(pw) == <<"scrypt", pw>>

\* No update of a user row in handling, and none answered.
IdleEdit ==
  [op |-> "none", pc |-> "idle", actor |-> 0, id |-> 0,
   body |-> [none |-> "undefined"], code |-> 0]

\* Slot p is free, and a new request takes the first free slot.
Free(p) == req[p].pc = "idle"
Accepts(p) == Free(p) /\ \A q \in Procs : q < p => ~Free(q)

\* The response: the handler is over.
Respond(r, c) == [r EXCEPT !.pc = "done", !.code = c]

\* Slot p moves to r: an answered request leaves its slot, and the step
\* sends its response.
Step(p, r) ==
  /\ req' = [req EXCEPT ![p] = IF r.pc = "done" THEN Idle ELSE r]
  /\ resp' = IF r.pc = "done" THEN r ELSE Idle

\* The tables are empty; the followed user's row holds some balance, the
\* other rows the default.
Init ==
  /\ balance \in [Users -> InitBalances]
  /\ \A u \in Users \ Customers : balance[u] = DefaultBalance
  /\ initial = balance
  /\ txs = <<>>
  /\ investments = <<>>
  /\ req = [p \in Procs |-> Idle]
  /\ resp = Idle
  /\ credits = <<>>
  /\ calls = <<>>
  /\ clients = {}
  /\ sockets = <<>>
  /\ messages = <<>>
  /\ chat = [p \in ChatProcs |-> IdleChat]
  /\ out = IdleChat
  /\ users = [u \in Users |-> [fullName |-> "old", password |-> HashPassword("p")]]
  /\ edit = IdleEdit

(* --------------------------- server/storage.ts ------------------------ *)

\* updateUserBalance: const newBalance = Number(user.balance) + amount.
NewBalance(bal, delta) == bal + delta

\* Variants of the check below, against which AdjustAlone and
\* BalanceNonNegative are tried: one refuses a new balance of zero as well,
\* one refuses nothing.
InsufficientOrZero(nb) == nb <= 0
InsufficientNever(nb) == FALSE

\* updateUserBalance: if (newBalance < 0) throw "Insufficient balance".
Insufficient(nb) == nb < 0

\* createTransaction: the inserted row; status defaults to pending, and
\* updatedAt counts the writes of the row after its insert.
CreateTransaction(userId, type, amount, status) ==
  [userId |-> userId, type |-> type, amount |-> amount,
   status |-> IF status = "none" THEN "pending" ELSE status, updatedAt |-> 0]

\* createInvestment: the inserted row.
CreateInvestment(userId, planId, amount) ==
  [userId |-> userId, planId |-> planId, amount |-> amount, isActive |-> TRUE]

\* The slot after the getUser of updateUserBalance read bal: the call goes
\* on to its update, or throws; a handler's catch answers 500.
AfterGetUser(r, bal) ==
  IF Insufficient(NewBalance(bal, r.delta))
  THEN [Respond(r, IF r.op = "adjust" THEN 0 ELSE 500) EXCEPT !.threw = TRUE]
  ELSE [r EXCEPT !.pc = "ubWrite", !.newBalance = NewBalance(bal, r.delta)]

\* What the caller does once updateUserBalance has returned.
AfterUpdate(r) ==
  CASE r.op = "deposit"  -> Respond(r, 201)
    [] r.op = "withdraw" -> Respond(r, 201)
    [] r.op = "invest"   -> Respond(r, 201)
    [] r.op = "reject"   -> [r EXCEPT !.pc = "setStatus", !.status = "rejected"]
    [] OTHER             -> Respond(r, 0)

\* updateUserBalance, first await: getUser(id) and the check of newBalance.
UpdateUserBalanceRead(p) ==
  /\ req[p].pc = "ubRead"
  /\ Step(p, AfterGetUser(req[p], balance[req[p].userId]))
  /\ UNCHANGED <<balance, initial, txs, investments, credits, calls, chatVars, userVars>>

\* updateUserBalance, second await: update users set balance = newBalance.
UpdateUserBalanceWrite(p) ==
  /\ req[p].pc = "ubWrite"
  /\ balance' = [balance EXCEPT ![req[p].userId] = req[p].newBalance]
  /\ credits' = IF req[p].op = "reject"
                THEN [credits EXCEPT ![req[p].txId] = @ + 1]
                ELSE credits
  /\ Step(p, AfterUpdate(req[p]))
  /\ UNCHANGED <<initial, txs, investments, calls, chatVars, userVars>>

\* updateTransactionStatus(id, status): the row's status and updatedAt.
UpdateTransactionStatus(p) ==
  /\ req[p].pc = "setStatus"
  /\ txs' = [txs EXCEPT ![req[p].txId] =
               [@ EXCEPT !.status = req[p].status, !.updatedAt = @ + 1]]
  /\ Step(p, Respond(req[p], 200))
  /\ UNCHANGED <<balance, initial, investments, credits, calls, chatVars, userVars>>

\* A direct call updateUserBalance(id, amount), up to its getUser.
AdjustBalance(p, u, d) ==
  /\ Accepts(p)
  /\ Len(calls) < MaxCalls
  /\ calls' = Append(calls, [userId |-> u, delta |-> d])
  /\ Step(p, AfterGetUser([Idle EXCEPT !.op = "adjust", !.userId = u, !.delta = d],
                          balance[u]))
  /\ UNCHANGED <<balance, initial, txs, investments, credits, chatVars, userVars>>

(* --------------------------- server/routes.ts ------------------------- *)

\* Handlers at position pcv: past their checks, their row not yet inserted.
Inserting(pcv) == Cardinality({q \in Procs : req[q].pc = pcv})

\* A variant of the check below, against which DepositSucceeds is tried: it
\* refuses the minimum amount itself.
DepositCheckedAbove(r) ==
  IF r.amount <= MinimumAmount
  THEN Respond(r, 400)
  ELSE [r EXCEPT !.pc = "ubRead", !.txId = Len(txs) + 1, !.delta = r.amount]

\* POST /api/transactions/deposit: the check of the amount.
DepositChecked(r) ==
  IF r.amount < MinimumAmount
  THEN Respond(r, 400)
  ELSE [r EXCEPT !.pc = "ubRead", !.txId = Len(txs) + 1, !.delta = r.amount]

\* POST /api/transactions/deposit, up to createTransaction.
DepositRequest(p, u, a) ==
  /\ Accepts(p)
  /\ LET r == DepositChecked([Idle EXCEPT !.op = "deposit", !.userId = u, !.amount = a]) IN
     /\ Step(p, r)
     /\ IF r.pc = "done"
        THEN UNCHANGED <<txs, credits>>
        ELSE /\ Len(txs) + Inserting("createTx") < MaxTx
             /\ txs' = Append(txs, CreateTransaction(u, "deposit", a, "completed"))
             /\ credits' = Append(credits, 0)
  /\ UNCHANGED <<balance, initial, investments, calls, chatVars, userVars>>

\* A variant of the checks below, against which BelowMinimumRefused is
\* tried: it does not look at the minimum.
WithdrawCheckedNoMinimum(r, bal) ==
  IF bal < r.amount
  THEN Respond([r EXCEPT !.userBalance = bal], 400)
  ELSE [r EXCEPT !.pc = "createTx", !.userBalance = bal]

\* A variant of the checks below, against which ExactBalanceWithdraw is
\* tried: it refuses an amount equal to the balance as well.
WithdrawCheckedStrict(r, bal) ==
  IF r.amount < MinimumAmount
  THEN Respond(r, 400)
  ELSE IF bal <= r.amount
  THEN Respond([r EXCEPT !.userBalance = bal], 400)
  ELSE [r EXCEPT !.pc = "createTx", !.userBalance = bal]

\* POST /api/transactions/withdraw: the checks of the amount and of the
\* balance read, bal.
WithdrawChecked(r, bal) ==
  IF r.amount < MinimumAmount
  THEN Respond(r, 400)
  ELSE IF bal < r.amount
  THEN Respond([r EXCEPT !.userBalance = bal], 400)
  ELSE [r EXCEPT !.pc = "createTx", !.userBalance = bal]

\* POST /api/transactions/withdraw, up to the check of the balance read.
WithdrawRequest(p, u, a) ==
  /\ Accepts(p)
  /\ LET r == WithdrawChecked([Idle EXCEPT !.op = "withdraw", !.userId = u, !.amount = a],
                              balance[u]) IN
     /\ Step(p, r)
     /\ r.pc # "done" => Len(txs) + Inserting("createTx") < MaxTx
  /\ UNCHANGED <<balance, initial, txs, investments, credits, calls, chatVars, userVars>>

\* POST /api/transactions/withdraw: createTransaction, status pending.
WithdrawCreate(p) ==
  /\ req[p].pc = "createTx"
  /\ txs' = Append(txs, CreateTransaction(req[p].userId, "withdrawal", req[p].amount, "pending"))
  /\ credits' = Append(credits, 0)
  /\ Step(p, [req[p] EXCEPT !.pc = "ubRead", !.txId = Len(txs) + 1, !.delta = -req[p].amount])
  /\ UNCHANGED <<balance, initial, investments, calls, chatVars, userVars>>

\* A variant of the findFirst below, against which TransitionAfterPending
\* is tried: it finds completed withdrawals as well.
PendingOrCompletedWithdrawal(t) ==
  /\ t \in 1..Len(txs)
  /\ txs[t].type = "withdrawal"
  /\ txs[t].status \in {"pending", "completed"}

\* A variant of the findFirst below, against which RejectTwice is tried: it
\* does not look at the status.
PendingWithdrawalAnyStatus(t) ==
  /\ t \in 1..Len(txs)
  /\ txs[t].type = "withdrawal"

\* The findFirst of approve and reject: id, type withdrawal, status pending.
PendingWithdrawal(t) ==
  /\ t \in 1..Len(txs)
  /\ txs[t].type = "withdrawal"
  /\ txs[t].status = "pending"

\* isAdmin: the token's role must be admin.
IsAdmin(actor) == Role[actor] = "admin"

\* A variant of the handler below, against which ApproveCompletes is tried:
\* it credits the owner before it sets the status.
ApproveFoundCredit(r) ==
  IF ~PendingWithdrawal(r.txId)
  THEN Respond(r, 404)
  ELSE [r EXCEPT !.pc = "ubRead", !.status = "completed",
                 !.userId = txs[r.txId].userId, !.delta = txs[r.txId].amount]

\* PATCH /api/admin/withdrawals/:id/approve: after the findFirst.
ApproveFound(r) ==
  IF ~PendingWithdrawal(r.txId)
  THEN Respond(r, 404)
  ELSE [r EXCEPT !.pc = "setStatus", !.status = "completed"]

\* PATCH /api/admin/withdrawals/:id/approve, up to the findFirst.
ApproveRequest(p, actor, t) ==
  /\ Accepts(p)
  /\ LET r == [Idle EXCEPT !.op = "approve", !.txId = t] IN
     Step(p, IF ~IsAdmin(actor) THEN Respond(r, 403) ELSE ApproveFound(r))
  /\ UNCHANGED <<balance, initial, txs, investments, credits, calls, chatVars, userVars>>

\* A variant of the handler below, against which LedgerBalance is tried: it
\* credits nothing.
RejectFoundNoCredit(r) ==
  IF ~PendingWithdrawal(r.txId)
  THEN Respond(r, 404)
  ELSE [r EXCEPT !.pc = "ubRead", !.userId = txs[r.txId].userId,
                 !.amount = txs[r.txId].amount, !.delta = 0]

\* PATCH /api/admin/withdrawals/:id/reject: after the findFirst.
RejectFound(r) ==
  IF ~PendingWithdrawal(r.txId)
  THEN Respond(r, 404)
  ELSE [r EXCEPT !.pc = "ubRead", !.userId = txs[r.txId].userId,
                 !.amount = txs[r.txId].amount, !.delta = txs[r.txId].amount]

\* PATCH /api/admin/withdrawals/:id/reject, up to the findFirst.
RejectRequest(p, actor, t) ==
  /\ Accepts(p)
  /\ LET r == [Idle EXCEPT !.op = "reject", !.txId = t] IN
     Step(p, IF ~IsAdmin(actor) THEN Respond(r, 403) ELSE RejectFound(r))
  /\ UNCHANGED <<balance, initial, txs, investments, credits, calls, chatVars, userVars>>

\* A variant of the checks below, against which InvestWithinBounds is tried:
\* it does not look at the plan's maximum.
InvestCheckedNoMaximum(r) ==
  IF r.planId \notin DOMAIN Plans
  THEN Respond(r, 404)
  ELSE IF r.amount < Plans[r.planId].minAmount
  THEN Respond(r, 400)
  ELSE [r EXCEPT !.pc = "checkBalance"]

\* POST /api/investments: the plan found, and the amount within its range.
InvestChecked(r) ==
  IF r.planId \notin DOMAIN Plans
  THEN Respond(r, 404)
  ELSE IF r.amount < Plans[r.planId].minAmount \/ r.amount > Plans[r.planId].maxAmount
  THEN Respond(r, 400)
  ELSE [r EXCEPT !.pc = "checkBalance"]

\* POST /api/investments, up to the check of the amount against the plan.
InvestRequest(p, u, pl, a) ==
  /\ Accepts(p)
  /\ Step(p, InvestChecked([Idle EXCEPT !.op = "invest", !.userId = u, !.planId = pl,
                                        !.amount = a]))
  /\ UNCHANGED <<balance, initial, txs, investments, credits, calls, chatVars, userVars>>

\* A variant of the check below, against which InvestInsufficient is tried:
\* it refuses nothing.
InvestBalanceUnchecked(r, bal) ==
  [r EXCEPT !.pc = "createInv", !.userBalance = bal]

\* POST /api/investments: the check of the balance read, bal.
InvestBalanceChecked(r, bal) ==
  IF bal < r.amount
  THEN Respond([r EXCEPT !.userBalance = bal], 400)
  ELSE [r EXCEPT !.pc = "createInv", !.userBalance = bal]

\* POST /api/investments: the read of the user and the check of the balance.
InvestCheckBalance(p) ==
  /\ req[p].pc = "checkBalance"
  /\ LET r == InvestBalanceChecked(req[p], balance[req[p].userId]) IN
     /\ Step(p, r)
     /\ r.pc # "done" => Len(investments) + Inserting("createInv") < MaxInv
  /\ UNCHANGED <<balance, initial, txs, investments, credits, calls, chatVars, userVars>>

\* POST /api/investments: createInvestment.
InvestCreate(p) ==
  /\ req[p].pc = "createInv"
  /\ investments' = Append(investments,
                           CreateInvestment(req[p].userId, req[p].planId, req[p].amount))
  /\ Step(p, [req[p] EXCEPT !.pc = "ubRead", !.invId = Len(investments) + 1,
                            !.delta = -req[p].amount])
  /\ UNCHANGED <<balance, initial, txs, credits, calls, chatVars, userVars>>

(* ------------------- server/routes.ts: chat, WebSocket ---------------- *)

\* A variant of Map.set below, against which RegistryLastWins is tried: it
\* adds the entry and keeps the one the key had.
MapSetKeeping(m, k, v) == m \cup {[key |-> k, ws |-> v]}

\* Map.set, Map.has, Map.get (0 for undefined) and Map.delete on the entries
\* of a Map.
MapSet(m, k, v) == {e \in m : e.key # k} \cup {[key |-> k, ws |-> v]}
MapHas(m, k) == \E e \in m : e.key = k
MapGet(m, k) == IF MapHas(m, k) THEN (CHOOSE e \in m : e.key = k).ws ELSE 0
MapDelete(m, k) == {e \in m : e.key # k}

\* parseInt(userId) of the userId of a connection URL, and id.toString().
parseInt(k) == CASE k = "1" -> 1 [] k = "01" -> 1 [] k = "2" -> 2
toString(n) == CASE n = 1 -> "1" [] n = 2 -> "2"

\* obj.name: undefined when the object has no such property.
Property(obj, name) == IF name \in DOMAIN obj THEN obj[name] ELSE "undefined"

\* a || b.
Or(a, b) == IF a \in {"undefined", ""} THEN b ELSE a

\* A variant of the un-awaited call below, against which SendUserMessageSame
\* is tried: the call awaited, which gives the row.
Awaited(row) == row

\* db.query.users.findFirst(id): the row; and what the call gives when it is
\* not awaited: a Promise, which has no property of the row.
FindFirstUser(id) == [id |-> id, role |-> Role[id]]
Unawaited(row) == [promise |-> row]

\* insert into chat_messages: the row inserted.
NewMessage(userId, content) ==
  [userId |-> userId, content |-> content, status |-> "unread",
   adminResponse |-> "null", adminId |-> 0]

\* update chat_messages set adminResponse, adminId, status: the row updated.
Reply(row, adminResponse, adminId, status) ==
  [row EXCEPT !.adminResponse = adminResponse, !.adminId = adminId, !.status = status]

\* Chat slot p is free, and a new frame or request takes the first free slot.
AcceptsChat(p) ==
  /\ chat[p].pc = "idle"
  /\ \A q \in ChatProcs : q < p => chat[q].pc # "idle"

\* Chat slot p moves to r: a handler that is over leaves its slot, and the
\* step sends what r holds.
ChatStep(p, r) ==
  /\ chat' = [chat EXCEPT ![p] = IF r.pc = "done" THEN IdleChat ELSE r]
  /\ out' = IF r.pc = "done" THEN r ELSE IdleChat

\* Connection c is open, and its URL carried a userId: its message listener
\* is attached and it may deliver a frame.
Listening(c) ==
  /\ c \in DOMAIN sockets
  /\ sockets[c].readyState = "OPEN"
  /\ sockets[c].userId # ""

\* wss.on('connection'): the connection is accepted; with a userId in its
\* URL it is set in clients under that userId.
Connection(k) ==
  /\ Len(sockets) < MaxConns
  /\ sockets' = Append(sockets, [userId |-> k, readyState |-> "OPEN"])
  /\ clients' = IF k # "" THEN MapSet(clients, k, Len(sockets) + 1) ELSE clients
  /\ out' = IdleChat
  /\ UNCHANGED <<messages, chat, bankVars, userVars>>

\* The transport starts to close connection c: it is no longer OPEN.
SocketClosing(c) ==
  /\ sockets[c].readyState = "OPEN"
  /\ sockets' = [sockets EXCEPT ![c].readyState = "CLOSING"]
  /\ out' = IdleChat
  /\ UNCHANGED <<clients, messages, chat, bankVars, userVars>>

\* ws.on('close'): connection c is closed, and its listener deletes the
\* entry of its userId from clients.
SocketClose(c) ==
  /\ sockets[c].readyState = "CLOSING"
  /\ sockets' = [sockets EXCEPT ![c].readyState = "CLOSED"]
  /\ clients' = IF sockets[c].userId # ""
                THEN MapDelete(clients, sockets[c].userId)
                ELSE clients
  /\ out' = IdleChat
  /\ UNCHANGED <<messages, chat, bankVars, userVars>>

\* POST /api/chat/messages: the insert of the message, and the answer.
PostRequest(p, actor, content) ==
  /\ AcceptsChat(p)
  /\ Len(messages) < MaxMsgs
  /\ messages' = Append(messages, NewMessage(actor, content))
  /\ ChatStep(p, [IdleChat EXCEPT !.op = "post", !.pc = "done", !.actor = actor,
                                  !.messageId = Len(messages) + 1,
                                  !.content = content, !.code = 201])
  /\ UNCHANGED <<clients, sockets, bankVars, userVars>>

\* ws.on('message'), type chat: up to the insert of the message.
ChatFrame(p, c, content) ==
  /\ AcceptsChat(p)
  /\ Listening(c)
  /\ Len(messages) < MaxMsgs
  /\ messages' = Append(messages, NewMessage(parseInt(sockets[c].userId), content))
  /\ ChatStep(p, [IdleChat EXCEPT !.op = "chat", !.pc = "broadcast", !.ws = c,
                                  !.userId = sockets[c].userId,
                                  !.messageId = Len(messages) + 1,
                                  !.content = content])
  /\ UNCHANGED <<clients, sockets, bankVars, userVars>>

\* The connections clients.forEach sends new_message to: those whose user,
\* as the handler holds it, has role admin, and which are OPEN.
NewMessageReceivers ==
  {e.ws : e \in {x \in clients :
     LET user == Unawaited(FindFirstUser(parseInt(x.key))) IN
       /\ Property(user, "role") = "admin"
       /\ sockets[x.ws].readyState = "OPEN"}}

\* ws.on('message'), type chat: the broadcast to the administrators.
ChatBroadcast(p) ==
  /\ chat[p].pc = "broadcast"
  /\ ChatStep(p, [chat[p] EXCEPT !.pc = "done", !.type = "new_message",
                                 !.to = NewMessageReceivers])
  /\ UNCHANGED <<clients, sockets, messages, bankVars, userVars>>

\* ws.on('message'), type admin_reply with a messageId: the update of the
\* message.
AdminReplyFrame(p, c, m, content) ==
  /\ AcceptsChat(p)
  /\ Listening(c)
  /\ messages' = IF m \in DOMAIN messages
                 THEN [messages EXCEPT ![m] =
                         Reply(@, content, parseInt(sockets[c].userId), "replied")]
                 ELSE messages
  /\ ChatStep(p, [IdleChat EXCEPT !.op = "admin_reply", !.pc = "unicast", !.ws = c,
                                  !.userId = sockets[c].userId,
                                  !.adminId = parseInt(sockets[c].userId),
                                  !.messageId = m,
                                  !.content = content, !.status = "replied",
                                  !.found = (m \in DOMAIN messages)])
  /\ UNCHANGED <<clients, sockets, bankVars, userVars>>

\* The connection the reply to message m is sent to, if any: the entry of
\* the sender's id in clients, when it is OPEN.
AdminReplyReceivers(m) ==
  LET targetWs == MapGet(clients, toString(messages[m].userId)) IN
  IF targetWs # 0 /\ sockets[targetWs].readyState = "OPEN" THEN {targetWs} ELSE {}

\* ws.on('message'), type admin_reply: the push to the sender of the
\* message; with no row updated, updatedMessage[0].userId throws, and the
\* catch logs it.
AdminReplyUnicast(p) ==
  /\ chat[p].pc = "unicast"
  /\ ChatStep(p, IF ~chat[p].found
                 THEN [chat[p] EXCEPT !.pc = "done", !.threw = TRUE]
                 ELSE [chat[p] EXCEPT !.pc = "done", !.type = "admin_reply",
                                      !.to = AdminReplyReceivers(chat[p].messageId)])
  /\ UNCHANGED <<clients, sockets, messages, bankVars, userVars>>

\* A variant of the check below, against which ReplyToAbsent is tried: the
\* handler goes on to its update whether or not the row was found.
PatchFoundAlways(r) == [r EXCEPT !.pc = "update", !.found = TRUE]

\* PATCH /api/admin/chat/messages/:id: after the findFirst.
PatchFound(r) ==
  IF r.messageId \notin DOMAIN messages
  THEN [r EXCEPT !.pc = "done", !.code = 404]
  ELSE [r EXCEPT !.pc = "update", !.found = TRUE]

\* A variant of the query below, against which MessagePersisted is tried:
\* the query of GET /api/admin/chat/messages/unread.
FindManyUnread(ms) == {m \in DOMAIN ms : ms[m].status = "unread"}

\* db.query.chatMessages.findMany with no where: the ids of the rows returned.
FindMany(ms) == DOMAIN ms

\* GET /api/admin/chat/messages: the rows, for an administrator.
MessagesRequest(p, actor) ==
  /\ AcceptsChat(p)
  /\ LET r == [IdleChat EXCEPT !.op = "messages", !.pc = "done", !.actor = actor] IN
     ChatStep(p, IF ~IsAdmin(actor)
                 THEN [r EXCEPT !.code = 403]
                 ELSE [r EXCEPT !.code = 200, !.rows = FindMany(messages)])
  /\ UNCHANGED <<clients, sockets, messages, bankVars, userVars>>

\* PATCH /api/admin/chat/messages/:id, up to the findFirst.
PatchRequest(p, actor, m, adminResponse, status) ==
  /\ AcceptsChat(p)
  /\ LET r == [IdleChat EXCEPT !.op = "patch", !.adminId = actor,
                               !.messageId = m, !.content = adminResponse,
                               !.status = status] IN
     ChatStep(p, IF ~IsAdmin(actor)
                 THEN [r EXCEPT !.pc = "done", !.code = 403]
                 ELSE PatchFound(r))
  /\ UNCHANGED <<clients, sockets, messages, bankVars, userVars>>

\* PATCH /api/admin/chat/messages/:id: the update, and the answer.
PatchUpdate(p) ==
  /\ chat[p].pc = "update"
  /\ messages' = [messages EXCEPT ![chat[p].messageId] =
                    Reply(@, chat[p].content, chat[p].adminId,
                          Or(chat[p].status, "replied"))]
  /\ ChatStep(p, [chat[p] EXCEPT !.pc = "done", !.code = 200])
  /\ UNCHANGED <<clients, sockets, bankVars, userVars>>

(* ------------------- server/routes.ts: user rows ---------------------- *)

\* A variant of the destructuring below, against which BalanceFrame is
\* tried: the whole body is passed on.
PickAll(body, names) == body

\* const { a, b } = req.body, passed on as { a, b }: the named properties the
\* body defines.
Pick(body, names) == [n \in names \cap DOMAIN body |-> body[n]]

\* The users row of id, balance included.
UserRow(id) ==
  [fullName |-> users[id].fullName, password |-> users[id].password,
   balance |-> balance[id]]

\* update users set ...data where id: the row with the columns data names.
UpdateUser(row, data) ==
  [f \in DOMAIN row |-> IF f \in DOMAIN data THEN data[f] ELSE row[f]]

\* updateUserPassword: the row with the hash of the password.
UpdateUserPassword(row, pw) == UpdateUser(row, [password |-> HashPassword(pw)])

\* verifyPassword(supplied, stored).
VerifyPassword(supplied, stored) == HashPassword(supplied) = stored

\* The users row of id becomes row.
WriteUserRow(id, row) ==
  /\ users' = [users EXCEPT ![id] = [fullName |-> row.fullName, password |-> row.password]]
  /\ balance' = [balance EXCEPT ![id] = row.balance]

\* The update in handling moves to r; when it is over r is its answer.
EditStep(r) == edit' = r

\* No update of a user row is in handling.
EditFree == edit.pc \in {"idle", "done"}

\* PATCH /api/user/profile: updateUser with email, fullName and phone of the
\* body, and the answer.
ProfileRequest(actor, body) ==
  /\ EditFree
  /\ WriteUserRow(actor, UpdateUser(UserRow(actor),
                                    Pick(body, {"email", "fullName", "phone"})))
  /\ EditStep([IdleEdit EXCEPT !.op = "profile", !.pc = "done", !.actor = actor,
                               !.id = actor, !.body = body, !.code = 200])
  /\ UNCHANGED <<initial, txs, investments, req, resp, credits, calls, chatVars>>

\* PATCH /api/user/password, up to the check of the current password.
PasswordRequest(actor, body) ==
  /\ EditFree
  /\ LET r == [IdleEdit EXCEPT !.op = "password", !.actor = actor, !.id = actor,
                               !.body = body] IN
     EditStep(IF ~VerifyPassword(body.currentPassword, UserRow(actor).password)
              THEN [r EXCEPT !.pc = "done", !.code = 400]
              ELSE [r EXCEPT !.pc = "password"])
  /\ UNCHANGED <<users, bankVars, chatVars>>

\* PATCH /api/user/password: updateUserPassword, and the answer.
PasswordUpdate ==
  /\ edit.op = "password" /\ edit.pc = "password"
  /\ WriteUserRow(edit.id, UpdateUserPassword(UserRow(edit.id), edit.body.newPassword))
  /\ EditStep([edit EXCEPT !.pc = "done", !.code = 200])
  /\ UNCHANGED <<initial, txs, investments, req, resp, credits, calls, chatVars>>

\* PATCH /api/admin/users/:id, up to the getUser, which throws when there is
\* no row: the catch answers 500.
AdminUserRequest(actor, id, body) ==
  /\ EditFree
  /\ LET r == [IdleEdit EXCEPT !.op = "adminUser", !.actor = actor, !.id = id,
                               !.body = body] IN
     EditStep(IF ~IsAdmin(actor) THEN [r EXCEPT !.pc = "done", !.code = 403]
              ELSE IF id \notin Users THEN [r EXCEPT !.pc = "done", !.code = 500]
              ELSE [r EXCEPT !.pc = "updateUser"])
  /\ UNCHANGED <<users, bankVars, chatVars>>

\* PATCH /api/admin/users/:id: updateUser with email, fullName and role of
\* the body; with no password in the body, the answer.
AdminUserUpdate ==
  /\ edit.op = "adminUser" /\ edit.pc = "updateUser"
  /\ WriteUserRow(edit.id, UpdateUser(UserRow(edit.id),
                                      Pick(edit.body, {"email", "fullName", "role"})))
  /\ EditStep(IF "password" \in DOMAIN edit.body
              THEN [edit EXCEPT !.pc = "password"]
              ELSE [edit EXCEPT !.pc = "done", !.code = 200])
  /\ UNCHANGED <<initial, txs, investments, req, resp, credits, calls, chatVars>>

\* PATCH /api/admin/users/:id: updateUserPassword, and the answer.
AdminUserPassword ==
  /\ edit.op = "adminUser" /\ edit.pc = "password"
  /\ WriteUserRow(edit.id, UpdateUserPassword(UserRow(edit.id), edit.body.password))
  /\ EditStep([edit EXCEPT !.pc = "done", !.code = 200])
  /\ UNCHANGED <<initial, txs, investments, req, resp, credits, calls, chatVars>>

(* --------------------------- specifications --------------------------- *)

\* A request arrives and is taken by slot p.
Request(p) ==
  \/ \E u \in Customers, a \in ValidAmounts : DepositRequest(p, u, a)
  \/ \E u \in Customers, a \in ValidAmounts : WithdrawRequest(p, u, a)
  \/ \E actor \in Admins, t \in RowIds : ApproveRequest(p, actor, t)
  \/ \E actor \in Admins, t \in RowIds : RejectRequest(p, actor, t)
  \/ \E u \in Customers, pl \in ActivePlanIds, a \in ValidAmounts : InvestRequest(p, u, pl, a)

\* The handler in slot p resumes after an awaited store call.
Resume(p) ==
  \/ WithdrawCreate(p)
  \/ InvestCheckBalance(p)
  \/ InvestCreate(p)
  \/ UpdateUserBalanceRead(p)
  \/ UpdateUserBalanceWrite(p)
  \/ UpdateTransactionStatus(p)

\* Requests served concurrently: any handler may take the next step.
Next == \E p \in Procs : Request(p) \/ Resume(p)

Spec == Init /\ [][Next]_vars

\* No request is in flight.
Quiet == \A p \in Procs : Free(p)

\* Requests served one after another: the handler in flight runs to its
\* response before the next request is taken.
NextSeq ==
  \E p \in Procs :
    \/ \E u \in Customers, a \in Amounts : Quiet /\ DepositRequest(p, u, a)
    \/ \E u \in Customers, a \in Amounts : Quiet /\ WithdrawRequest(p, u, a)
    \/ \E actor \in Users, t \in TxIds : Quiet /\ ApproveRequest(p, actor, t)
    \/ \E actor \in Users, t \in TxIds : Quiet /\ RejectRequest(p, actor, t)
    \/ \E u \in Customers, pl \in PlanIds, a \in Amounts : Quiet /\ InvestRequest(p, u, pl, a)
    \/ Resume(p)

SpecSeq == Init /\ [][NextSeq]_vars

\* Direct calls, concurrent.
NextAdjust ==
  \E p \in Procs :
    \/ \E u \in Customers, d \in Deltas : AdjustBalance(p, u, d)
    \/ UpdateUserBalanceWrite(p)

SpecAdjust == Init /\ [][NextAdjust]_vars

\* Direct calls, one after another.
NextAdjustSeq ==
  \E p \in Procs :
    \/ \E u \in Customers, d \in Deltas : Quiet /\ AdjustBalance(p, u, d)
    \/ UpdateUserBalanceWrite(p)

SpecAdjustSeq == Init /\ [][NextAdjustSeq]_vars

\* The chat: connections come and go, frames and requests are handled
\* concurrently.
NextChat ==
  \/ \E k \in Keys : Connection(k)
  \/ \E c \in DOMAIN sockets : SocketClosing(c)
  \/ \E c \in DOMAIN sockets : SocketClose(c)
  \/ \E p \in ChatProcs, actor \in Users, content \in Contents : PostRequest(p, actor, content)
  \/ \E p \in ChatProcs, c \in DOMAIN sockets, content \in Contents : ChatFrame(p, c, content)
  \/ \E p \in ChatProcs : ChatBroadcast(p)
  \/ \E p \in ChatProcs, c \in DOMAIN sockets, m \in MsgIds, content \in Contents :
       AdminReplyFrame(p, c, m, content)
  \/ \E p \in ChatProcs : AdminReplyUnicast(p)
  \/ \E p \in ChatProcs, actor \in Users, m \in MsgIds, content \in Contents,
        status \in StatusInputs : PatchRequest(p, actor, m, content, status)
  \/ \E p \in ChatProcs : PatchUpdate(p)
  \/ \E p \in ChatProcs, actor \in Users : MessagesRequest(p, actor)

\* The chat starts with every balance at the default.
InitChat == Init /\ balance = [u \in Users |-> DefaultBalance]

SpecChat == InitChat /\ [][NextChat]_vars

\* An update of a user row takes its next step.
NextUsers ==
  \/ \E actor \in Users, body \in UserBodies : ProfileRequest(actor, body)
  \/ \E actor \in Users, body \in PasswordBodies : PasswordRequest(actor, body)
  \/ PasswordUpdate
  \/ \E actor \in Users, id \in UserIds, body \in UserBodies : AdminUserRequest(actor, id, body)
  \/ AdminUserUpdate
  \/ AdminUserPassword

\* Nothing has been asked of the balance handlers; of the updates of a user
\* row; of the chat.
BankAtStart ==
  /\ balance = initial /\ txs = <<>> /\ investments = <<>>
  /\ Quiet /\ resp = Idle
UsersAtStart == edit = IdleEdit
ChatAtStart == sockets = <<>> /\ messages = <<>> /\ out = IdleChat

\* Every handler that may write a users row, and the chat.  The three groups
\* of handlers share no column, so a behaviour follows one group from the
\* start: the balance handlers served one after another, the updates of a
\* user row, or the chat.
NextFrame ==
  \/ UsersAtStart /\ ChatAtStart /\ NextSeq
  \/ BankAtStart /\ ChatAtStart /\ NextUsers
  \/ BankAtStart /\ UsersAtStart /\ NextChat

\* The followed user's row holds the minimum amount.
InitFrame == Init /\ balance[1] = MinimumAmount

SpecFrame == InitFrame /\ [][NextFrame]_vars

(* ----------------------------- properties ----------------------------- *)

\* The sum of the deltas of the calls in cs made for user u.
RECURSIVE SumDeltas(_, _)
SumDeltas(cs, u) ==
  IF cs = <<>> THEN 0
  ELSE (IF Head(cs).userId = u THEN Head(cs).delta ELSE 0) + SumDeltas(Tail(cs), u)

\* The sum of the negative deltas of the calls in cs made for user u.
RECURSIVE SumDebits(_, _)
SumDebits(cs, u) ==
  IF cs = <<>> THEN 0
  ELSE (IF Head(cs).userId = u /\ Head(cs).delta < 0 THEN Head(cs).delta ELSE 0)
       + SumDebits(Tail(cs), u)

\* C1: when the concurrent updateUserBalance calls made for a user have all
\* returned, and no running total of their deltas, in any order, would make
\* the balance negative, the balance is the initial balance plus the sum of
\* all the deltas: no update is lost.
NoLostUpdate ==
  \A u \in Users :
    (Quiet /\ initial[u] + SumDebits(calls, u) >= 0)
      => balance[u] = initial[u] + SumDeltas(calls, u)

\* The last direct call made.
LastCall == calls[Len(calls)]

\* C2: a call of updateUserBalance made while no other call is running sets
\* the balance to the old balance plus the delta when that is not negative;
\* otherwise it throws and every balance is as it was.
AdjustAlone ==
  [][
    /\ calls' # calls =>
         LET c == calls'[Len(calls')] IN
         IF balance[c.userId] + c.delta < 0
         THEN /\ resp'.op = "adjust" /\ resp'.threw
              /\ balance' = balance
              /\ Quiet'
         ELSE /\ resp' = Idle
              /\ balance' = balance
              /\ ~Quiet'
    /\ (calls' = calls /\ ~Quiet) =>
         /\ balance' = [balance EXCEPT ![LastCall.userId] = @ + LastCall.delta]
         /\ balance'[LastCall.userId] >= 0
         /\ resp'.op = "adjust" /\ ~resp'.threw
         /\ Quiet'
  ]_vars

\* A debit that takes the balance to exactly zero has been applied.
AdjustAloneWitness ==
  /\ resp.op = "adjust" /\ ~resp.threw
  /\ resp.delta < 0
  /\ balance[resp.userId] = 0

\* C3: in every state reached by any interleaving of deposit, withdraw,
\* invest, approve and reject handlers, every balance is at least zero.
BalanceNonNegative == \A u \in Users : balance[u] >= 0

\* A withdrawal whose debit was refused by updateUserBalance after the
\* handler's own check had passed: another debit came in between.
BalanceNonNegativeWitness ==
  /\ resp.op = "withdraw" /\ resp.code = 500
  /\ resp.userBalance >= resp.amount
  /\ balance[resp.userId] < resp.amount

\* The sum of the amounts of the first n rows of transactions that belong
\* to user u, are of the given type and in one of the given statuses.
RECURSIVE SumTx(_, _, _, _)
SumTx(n, u, type, statuses) ==
  IF n = 0 THEN 0
  ELSE (IF txs[n].userId = u /\ txs[n].type = type /\ txs[n].status \in statuses
        THEN txs[n].amount ELSE 0)
       + SumTx(n - 1, u, type, statuses)

\* What the rows of transactions say the balance of user u is.
Ledger(u) ==
  initial[u]
  + SumTx(Len(txs), u, "deposit", {"completed"})
  + SumTx(Len(txs), u, "profit", transactionStatusEnum)
  - SumTx(Len(txs), u, "withdrawal", transactionStatusEnum)
  + SumTx(Len(txs), u, "withdrawal", {"rejected"})

WithdrawalRowOnlyIfDebited ==
  (resp.op = "withdraw" /\ resp.code # 201) => resp.txId \notin DOMAIN txs

StatusTerminal ==
  [][
    \A t \in DOMAIN txs :
      txs[t].status \in {"completed", "rejected", "failed"}
        => txs'[t].status = txs[t].status
  ]_vars

\* C8: of two reject requests for the same pending withdrawal served one
\* after the other, the first credits the owner by the row's amount, once,
\* and sets the row rejected; the second is refused, and leaves the balance
\* and the rows as the first left them.
RejectTwice ==
  [][
    /\ \A t \in DOMAIN credits' : credits'[t] <= 1
    /\ \A t \in DOMAIN credits :
         credits'[t] # credits[t] =>
           /\ txs[t].status = "pending"
           /\ balance' = [balance EXCEPT ![txs[t].userId] = @ + txs[t].amount]
    /\ (resp'.op = "reject" /\ resp'.code = 200) =>
         /\ txs[resp'.txId].status = "pending"
         /\ txs'[resp'.txId].status = "rejected"
         /\ credits'[resp'.txId] = 1
         /\ balance' = balance
    /\ (resp'.op = "reject" /\ resp'.code = 404) =>
         ~PendingWithdrawal(resp'.txId)
    /\ (resp'.op = "reject" /\ resp'.txId \in DOMAIN txs
          /\ txs[resp'.txId].status = "rejected") =>
         /\ resp'.code \in {403, 404}
         /\ balance' = balance
         /\ txs' = txs
  ]_vars

\* A second reject of a withdrawal has been refused, after the first had
\* credited it.
RejectTwiceWitness ==
  /\ resp.op = "reject" /\ resp.code = 404
  /\ resp.txId \in DOMAIN txs
  /\ txs[resp.txId].status = "rejected"
  /\ credits[resp.txId] = 1

\* C9: when two reject requests for the same pending withdrawal run
\* interleaved, the owner's balance is credited for that withdrawal at most
\* once.
RejectCreditsOnce == \A t \in DOMAIN credits : credits[t] <= 1

\* C10: approve on a pending withdrawal sets the row's status to completed,
\* and no step of an approve handler changes any balance.
ApproveCompletes ==
  [][
    /\ \A p \in Procs :
         (Free(p) /\ req'[p].op = "approve") =>
           /\ PendingWithdrawal(req'[p].txId)
           /\ balance' = balance
           /\ txs' = txs
    /\ \A p \in Procs :
         (req[p].op = "approve" /\ req'[p] # req[p]) =>
           /\ resp'.op = "approve" /\ resp'.code = 200
           /\ resp'.txId = req[p].txId
           /\ txs'[resp'.txId].status = "completed"
           /\ balance' = balance
    /\ resp'.op = "approve" => balance' = balance
    /\ (resp'.op = "approve" /\ resp'.code = 404) =>
         /\ ~PendingWithdrawal(resp'.txId)
         /\ txs' = txs
  ]_vars

\* An approve has been served and the row is completed.
ApproveCompletesWitness ==
  /\ resp.op = "approve" /\ resp.code = 200
  /\ txs[resp.txId].type = "withdrawal"
  /\ txs[resp.txId].status = "completed"

\* C11: an approve or a reject of a withdrawal that is no longer pending,
\* served after the request that took it out of pending, is refused, and
\* the rows of transactions (status and updatedAt) and every balance are as
\* they were before the request.
TransitionAfterPending ==
  [][
    /\ \A p \in Procs :
         (Free(p) /\ req'[p].op \in {"approve", "reject"}) =>
           PendingWithdrawal(req'[p].txId)
    /\ (resp'.op \in {"approve", "reject"} /\ resp'.txId \in DOMAIN txs
          /\ txs[resp'.txId].status # "pending") =>
         /\ resp'.code \in {403, 404}
         /\ txs' = txs
         /\ balance' = balance
  ]_vars

\* An approve of a withdrawal already approved has been refused, and the
\* row was written once.
TransitionAfterPendingWitness ==
  /\ resp.op = "approve" /\ resp.code = 404
  /\ resp.txId \in DOMAIN txs
  /\ txs[resp.txId].status = "completed"
  /\ txs[resp.txId].updatedAt = 1

BelowMinimumRefused ==
  [][
    /\ \A p \in Procs :
         req'[p].op \in {"deposit", "withdraw"} => req'[p].amount >= MinimumAmount
    /\ (resp'.op \in {"deposit", "withdraw"} /\ resp'.amount < MinimumAmount) =>
         /\ resp'.code = 400
         /\ txs' = txs
         /\ balance' = balance
  ]_vars

\* A withdraw request below the minimum has been refused though the balance
\* covered it.
BelowMinimumRefusedWitness ==
  /\ resp.op = "withdraw" /\ resp.code = 400
  /\ resp.amount < MinimumAmount
  /\ balance[resp.userId] >= resp.amount

\* C14: an invest request whose amount is within the plan's range but above
\* the user's balance is refused for insufficient balance: no balance
\* changes and no investment row is inserted.
InvestInsufficient ==
  [][
    \A p \in Procs :
      (req[p].op = "invest" /\ req'[p] # req[p]
         /\ balance[req[p].userId] < req[p].amount) =>
        /\ resp'.op = "invest" /\ resp'.code = 400
        /\ balance' = balance
        /\ investments' = investments
  ]_vars

\* An invest request within the plan's range has been refused for a balance
\* below the amount.
InvestInsufficientWitness ==
  /\ resp.op = "invest" /\ resp.code = 400
  /\ resp.planId \in DOMAIN Plans
  /\ resp.amount >= Plans[resp.planId].minAmount
  /\ resp.amount <= Plans[resp.planId].maxAmount
  /\ balance[resp.userId] < resp.amount
  /\ investments = <<>>

\* C15: the insert of the investment row and the debit are one unit: an
\* invest request that has ended without its debit, because another request
\* lowered the balance after the handler's check, leaves no investment row.
InvestAtomic ==
  (resp.op = "invest" /\ resp.code # 201) => resp.invId \notin DOMAIN investments

\* The amount a is within the range of plan pl.
WithinBounds(pl, a) == Plans[pl].minAmount <= a /\ a <= Plans[pl].maxAmount

\* C16: every investment row has its amount within the range of its plan,
\* and an invest request whose amount is outside the range of the plan is
\* refused: no investment row is inserted and no balance changes.
InvestWithinBounds ==
  [][
    /\ \A i \in DOMAIN investments' :
         WithinBounds(investments'[i].planId, investments'[i].amount)
    /\ \A p \in Procs :
         req'[p].op = "invest" =>
           /\ req'[p].planId \in DOMAIN Plans
           /\ WithinBounds(req'[p].planId, req'[p].amount)
    /\ (resp'.op = "invest" /\ resp'.planId \in DOMAIN Plans
          /\ ~WithinBounds(resp'.planId, resp'.amount)) =>
         /\ resp'.code = 400
         /\ balance' = balance
         /\ investments' = investments
  ]_vars

\* An invest request above the plan's maximum has been refused though the
\* balance covered it.
InvestWithinBoundsWitness ==
  /\ resp.op = "invest" /\ resp.code = 400
  /\ resp.planId \in DOMAIN Plans
  /\ resp.amount > Plans[resp.planId].maxAmount
  /\ balance[resp.userId] >= resp.amount

\* C17: an invest request succeeds only for a plan that exists and is
\* active; for an absent or inactive plan it fails.
InvestPlanActive ==
  (resp.op = "invest" /\ resp.code = 201) =>
    /\ resp.planId \in DOMAIN Plans
    /\ Plans[resp.planId].status = "active"

\* The connection accepted last with userId k, 0 if there is none.
LastRegistered(ss, k) ==
  LET cs == {c \in DOMAIN ss : ss[c].userId = k} IN
  IF cs = {} THEN 0 ELSE CHOOSE c \in cs : \A d \in cs : d <= c

\* C18: clients holds at most one entry per userId; a connection accepted
\* with userId k becomes the entry of k, the entries of the other userIds
\* staying as they are; and an entry never holds a connection that a later
\* connection with the same userId replaced.
RegistryLastWins ==
  [][
    /\ \A k \in Keys : Cardinality({e \in clients' : e.key = k}) <= 1
    /\ \A e \in clients' : e.ws = LastRegistered(sockets', e.key)
    /\ Len(sockets') > Len(sockets) =>
         LET c == Len(sockets')
             k == sockets'[c].userId
         IN /\ k # "" => MapGet(clients', k) = c
            /\ {e \in clients' : e.key # k} = {e \in clients : e.key # k}
  ]_vars

\* A second connection with the userId of a connection still open has taken
\* its place in clients.
RegistryLastWinsWitness ==
  /\ Len(sockets) = 2
  /\ sockets[1].userId = sockets[2].userId
  /\ sockets[1].readyState = "OPEN"
  /\ MapGet(clients, sockets[2].userId) = 2

\* The connections in clients that are OPEN and whose user has role admin.
OpenAdminConnections ==
  {e.ws : e \in {x \in clients :
     /\ Role[parseInt(x.key)] = "admin"
     /\ sockets[x.ws].readyState = "OPEN"}}

\* C19: when a user's chat frame has been handled, the connections that were sent
\* new_message are exactly the connections in clients that are OPEN and
\* whose user has role admin.
NewMessageToAdmins ==
  (out.op = "chat" /\ Role[parseInt(out.userId)] = "user")
    => out.to = OpenAdminConnections

\* C20: after a reply to an existing message has succeeded, over PATCH
\* /api/admin/chat/messages/:id or over an admin_reply frame, the message
\* holds the reply as adminResponse, the responder as adminId and the status
\* replied, whatever else the request carried.
ReplyStored ==
  ((out.op = "patch" /\ out.code = 200) \/ (out.op = "admin_reply" /\ ~out.threw)) =>
    /\ messages[out.messageId].adminResponse = out.content
    /\ messages[out.messageId].adminId = out.adminId
    /\ messages[out.messageId].status = "replied"

\* C21: when a reply has been applied to a message, over PATCH
\* /api/admin/chat/messages/:id or over an admin_reply frame, the connections
\* that were sent admin_reply are the entry of the message's sender in
\* clients if it is OPEN, and none otherwise.
AdminReplyToSender ==
  ((out.op = "patch" /\ out.code = 200) \/ (out.op = "admin_reply" /\ ~out.threw)) =>
    out.to = AdminReplyReceivers(out.messageId)

\* What a chat frame with this content on a connection with userId k gives
\* from the present state: the row inserted and the connections sent
\* new_message.
SocketResult(k, content) ==
  [row |-> NewMessage(parseInt(k), content), to |-> NewMessageReceivers]

ReplyToAbsent ==
  [][
    /\ \A p \in ChatProcs :
         (chat[p].pc = "idle" /\ chat'[p].op = "admin_reply"
            /\ chat'[p].messageId \notin DOMAIN messages)
           => (messages' = messages /\ ~chat'[p].found)
    /\ (out'.op = "admin_reply" /\ ~out'.found)
         => (out'.threw /\ out'.type = "none" /\ out'.to = {} /\ messages' = messages)
    /\ (out'.op = "patch" /\ IsAdmin(out'.adminId) /\ out'.messageId \notin DOMAIN messages)
         => (out'.code = 404 /\ out'.type = "none" /\ out'.to = {} /\ messages' = messages)
  ]_vars

\* An administrator's admin_reply frame named an id with no row while another
\* message exists and its sender's connection is OPEN: the handler threw.
ReplyToAbsentWitness ==
  /\ out.op = "admin_reply" /\ out.threw
  /\ Role[out.adminId] = "admin"
  /\ out.messageId \notin DOMAIN messages
  /\ Len(messages) = 1
  /\ AdminReplyReceivers(1) # {}

\* C24: a message is changed at most once after its insert: once it holds a
\* reply, no later reply, over PATCH or over a frame, by any administrator,
\* changes its adminResponse, adminId or status; and no row is ever deleted.
RepliedOnce ==
  [][
    /\ Len(messages') >= Len(messages)
    /\ \A m \in DOMAIN messages :
         (messages[m].adminResponse # "null" /\ messages[m].status # "unread")
           => messages'[m] = messages[m]
  ]_vars

\* C25: a message is inserted with status unread before its broadcast is
\* attempted, no row is ever removed, and GET /api/admin/chat/messages
\* answers an administrator with every row of the table, whatever was
\* connected or sent when the message came.
MessagePersisted ==
  [][
    /\ \A m \in DOMAIN messages' \ DOMAIN messages : messages'[m].status = "unread"
    /\ \A p \in ChatProcs :
         chat'[p].pc = "broadcast" => chat'[p].messageId \in DOMAIN messages'
    /\ out'.op = "chat" => out'.messageId \in DOMAIN messages'
    /\ DOMAIN messages \subseteq DOMAIN messages'
    /\ (out'.op = "messages" /\ out'.code = 200) => out'.rows = DOMAIN messages'
  ]_vars

\* An administrator is answered with a message that came over a chat frame
\* and has been replied to, while no administrator's connection has ever
\* been accepted.
MessagePersistedWitness ==
  /\ out.op = "messages" /\ out.code = 200
  /\ out.rows = {1}
  /\ messages[1].status = "replied"
  /\ sockets # <<>>
  /\ \A c \in DOMAIN sockets : sockets[c].userId \in {"1", "01"}

\* C26: a balance is written only by the update of updateUserBalance, and
\* only the balance of the user the call is made for: the requester of a
\* deposit, withdrawal or investment, the owner of the withdrawal (not the
\* administrator) for a reject.  The updates of a profile, of a password and
\* of a user by an administrator, the approval of a withdrawal and every chat
\* step leave every balance as it was.
BalanceFrame ==
  [][
    /\ \A u \in Users :
         balance'[u] # balance[u] =>
           \E p \in Procs :
             /\ req[p].pc = "ubWrite"
             /\ req[p].op \in {"deposit", "withdraw", "invest", "reject"}
             /\ u = req[p].userId
             /\ req[p].op = "reject" => (u = txs[req[p].txId].userId /\ ~IsAdmin(u))
             /\ balance' = [balance EXCEPT ![u] = req[p].newBalance]
    /\ (users' # users \/ edit' # edit) => balance' = balance
    /\ (\E p \in Procs : req[p].op = "approve" \/ resp'.op = "approve") => balance' = balance
    /\ chatVars' # chatVars => balance' = balance
  ]_vars

\* A profile update whose body carried a balance has been answered 200, and
\* the row's balance is not the body's.
BalanceFrameWitness ==
  /\ edit.op = "profile" /\ edit.code = 200
  /\ "balance" \in DOMAIN edit.body
  /\ users[edit.id].fullName = edit.body.fullName
  /\ balance[edit.id] # edit.body.balance

\* C27: the credit of a reject and the status rejected are written in one
\* step: in no state has a withdrawal's amount been credited back while the
\* row's status is still pending.
RejectAtomic ==
  \A t \in DOMAIN txs : credits[t] > 0 => txs[t].status # "pending"

\* C28: withdraw requests of one user that run interleaved never both
\* succeed when their amounts sum to more than the balance: once the last of
\* them has been answered 201 and the table holds nothing but that user's
\* pending withdrawals, their amounts sum to at most the balance the user had
\* before them.
NoOvercommit ==
  (/\ Quiet
   /\ resp.op = "withdraw" /\ resp.code = 201
   /\ investments = <<>>
   /\ \A t \in DOMAIN txs :
        /\ txs[t].userId = resp.userId
        /\ txs[t].type = "withdrawal"
        /\ txs[t].status = "pending")
    => SumTx(Len(txs), resp.userId, "withdrawal", {"pending"}) <= initial[resp.userId]

\* C29: an entry of clients is removed only by the close of the connection
\* it holds: while the connection accepted last with a userId is OPEN, it is
\* the entry of that userId, whatever other connection has closed.
EntryWhileOpen ==
  \A k \in Keys \ {""} :
    LET c == LastRegistered(sockets, k) IN
    (c # 0 /\ sockets[c].readyState = "OPEN") => MapGet(clients, k) = c

\* C30: an admin_reply frame received on a connection whose user has role
\* user changes no message and makes no connection receive admin_reply.
AdminReplyByAdminOnly ==
  [][
    /\ \A p \in ChatProcs :
         (chat[p].pc = "idle" /\ chat'[p].op = "admin_reply"
            /\ Role[parseInt(chat'[p].userId)] = "user")
           => messages' = messages
    /\ (out'.op = "admin_reply" /\ Role[parseInt(out'.userId)] = "user")
         => (out'.type = "none" /\ out'.to = {} /\ messages' = messages)
  ]_vars

====
